---- MODULE Spec2Model ----
(***************************************************************************)
(* Model of active911::ConnectionPool<T> (src/ConnectionPool.h).           *)
(*                                                                         *)
(* Connections are identified by the number of the factory->create() call  *)
(* that made them (1, 2, ...).  A caller thread holds at most one handle.  *)
(* The use count of a connection that is in `borrowed` is one (the pool's  *)
(* own copy) plus the number of threads holding it, so shared_ptr::unique()*)
(* is "no thread holds it".                                                *)
(*                                                                         *)
(* timelock_mutex is only ever held around pthread_cond_timedwait by the   *)
(* waiters themselves (unborrow signals without taking it), it protects no *)
(* state, so its lock/unlock are folded into the wait-entry and wake-up    *)
(* steps.  The clock is read in whole time units.                          *)
(***************************************************************************)
EXTENDS Integers, Sequences, FiniteSets, TLC

\* ---- bounds of the model ----
\* caller threads
NumThreads == 2
\* largest pool_size given to the constructor
MaxPoolSize == 2
\* largest timeout_sec given to the constructor
MaxTimeout == 1
\* the clock stops advancing here
MaxTime == 2
\* factory->create() succeeds at most this many times
MaxConn == 3

Threads == 1..NumThreads
Conns == 1..MaxConn
\* an empty shared_ptr
NoConn == 0
\* io_mutex is not locked
NoOwner == 0

VARIABLES
    phase,        \* position of the constructor: "ctor", "ready", "failed"
    pool_size,    \* ConnectionPool::pool_size
    timeout_sec,  \* ConnectionPool::timeout_sec
    pool,         \* ConnectionPool::pool, the deque of free connections
    borrowed,     \* ConnectionPool::borrowed, the set of leased connections
    io_mutex,     \* owner of ConnectionPool::io_mutex, NoOwner when free
    created,      \* number of connections the factory has made so far
    health,       \* per connection: what isValid()/reconnect() would answer
    now,          \* the clock read by gettimeofday
    pc,           \* per thread: position in its borrow() call
    held,         \* per thread: the handle the caller holds, NoConn if none
    lock_usec,    \* per thread: the deadline of its borrow() call, 0 outside
    res,          \* per thread: how its last borrow() call ended
    stats         \* the last ConnectionPoolStats returned by get_stats

vars == <<phase, pool_size, timeout_sec, pool, borrowed, io_mutex, created,
          health, now, pc, held, lock_usec, res, stats>>

\* ---- helpers ----
RECURSIVE SeqToSet(_)
SeqToSet(s) == IF s = <<>> THEN {} ELSE {Head(s)} \cup SeqToSet(Tail(s))

\* (*it).unique(): an entry of borrowed whose caller dropped every reference
Abandoned_any == borrowed
Abandoned == {c \in borrowed : \A t \in Threads : held[t] # c}

\* Connection::isValid()
isValid(c) == health[c] = "ok"

\* Connection::reconnect()
reconnect(c) == health[c] = "stale"

\* the ConnectionPoolStats get_stats fills in
get_stats_value ==
    [taken |-> TRUE, pool_size |-> Len(pool),
     borrowed_size |-> Cardinality(borrowed), timeout_sec |-> timeout_sec]

\* lock_usec > now_usec
DeadlineNotPassed_inclusive(t) == lock_usec[t] >= now
DeadlineNotPassed(t) == lock_usec[t] > now

\* ---- construction ----
Init ==
    /\ phase = "ctor"
    /\ pool_size \in 1..MaxPoolSize
    /\ timeout_sec \in 0..MaxTimeout
    /\ pool = <<>>
    /\ borrowed = {}
    /\ io_mutex = NoOwner
    /\ created = 0
    /\ health = [c \in Conns |-> "ok"]
    /\ now = 0
    /\ pc = [t \in Threads |-> "idle"]
    /\ held = [t \in Threads |-> NoConn]
    /\ lock_usec = [t \in Threads |-> 0]
    /\ res = [t \in Threads |-> "none"]
    /\ stats = [taken |-> FALSE, pool_size |-> 0, borrowed_size |-> 0,
                timeout_sec |-> 0]

\* while(this->pool.size() < this->pool_size)
CtorNeedsFill_short == Len(pool) + 1 < pool_size
CtorNeedsFill == Len(pool) < pool_size

\* this->pool.push_back(this->factory->create())
CtorFill ==
    /\ phase = "ctor"
    /\ CtorNeedsFill
    /\ created < MaxConn
    /\ created' = created + 1
    /\ pool' = Append(pool, created + 1)
    /\ UNCHANGED <<phase, pool_size, timeout_sec, borrowed, io_mutex, health,
                   now, pc, held, lock_usec, res, stats>>

\* factory->create() throws inside the constructor: no pool is built
CtorThrow ==
    /\ phase = "ctor"
    /\ CtorNeedsFill
    /\ phase' = "failed"
    /\ pool' = <<>>
    /\ UNCHANGED <<pool_size, timeout_sec, borrowed, io_mutex, created, health,
                   now, pc, held, lock_usec, res, stats>>

CtorDone ==
    /\ phase = "ctor"
    /\ ~CtorNeedsFill
    /\ phase' = "ready"
    /\ UNCHANGED <<pool_size, timeout_sec, pool, borrowed, io_mutex, created,
                   health, now, pc, held, lock_usec, res, stats>>

\* ---- get_stats ----
get_stats ==
    /\ phase = "ready"
    /\ io_mutex = NoOwner
    /\ stats' = get_stats_value
    /\ UNCHANGED <<phase, pool_size, timeout_sec, pool, borrowed, io_mutex,
                   created, health, now, pc, held, lock_usec, res>>

\* ---- borrow ----
\* lines 146-151: the deadline of this call
BorrowStart(t) ==
    /\ phase = "ready"
    /\ pc[t] = "idle"
    /\ pc' = [pc EXCEPT ![t] = "loop"]
    /\ lock_usec' = [lock_usec EXCEPT ![t] = now + timeout_sec]
    /\ res' = [res EXCEPT ![t] = "none"]
    /\ UNCHANGED <<phase, pool_size, timeout_sec, pool, borrowed, io_mutex,
                   created, health, now, held, stats>>

\* this->pool.front()
front_newest(p) == p[Len(p)]
front(p) == Head(p)

\* this->pool.pop_front()
PoolAfterPop_keep(p) == p
PoolAfterPop(p) == Tail(p)

\* the connection that failed to reconnect goes out of scope with the throw
PoolAfterDiscard_requeue(p) == Append(Tail(p), Head(p))
PoolAfterDiscard(p) == Tail(p)

\* this->borrowed.erase(it); this->borrowed.insert(conn);
BorrowedAfterReplace_noerase(b, old, new) == b \cup {new}
BorrowedAfterReplace(b, old, new) == (b \ {old}) \cup {new}

\* catch(std::exception& e) { break; }: the call goes on to the time check,
\* still holding io_mutex
CreateFailure_escapes(t) ==
    /\ pc' = [pc EXCEPT ![t] = "idle"]
    /\ res' = [res EXCEPT ![t] = "CreationFailed"]
    /\ lock_usec' = [lock_usec EXCEPT ![t] = 0]
    /\ io_mutex' = NoOwner
CreateFailure(t) ==
    /\ pc' = [pc EXCEPT ![t] = "timecheck"]
    /\ res' = res
    /\ lock_usec' = lock_usec
    /\ io_mutex' = t

\* lines 157, 217-234: the pool is not empty, the front connection is valid
\* or reconnects
BorrowPop(t) ==
    /\ pc[t] = "loop"
    /\ io_mutex = NoOwner
    /\ pool # <<>>
    /\ LET conn == front(pool) IN
        /\ isValid(conn) \/ reconnect(conn)
        /\ pool' = PoolAfterPop(pool)
        /\ health' = [health EXCEPT ![conn] = "ok"]
        /\ borrowed' = borrowed \cup {conn}
        /\ held' = [held EXCEPT ![t] = conn]
    /\ pc' = [pc EXCEPT ![t] = "holding"]
    /\ res' = [res EXCEPT ![t] = "ok"]
    /\ lock_usec' = [lock_usec EXCEPT ![t] = 0]
    /\ UNCHANGED <<phase, pool_size, timeout_sec, io_mutex, created, now,
                   stats>>

\* a borrow that makes up for the connection it discards with a new one
BorrowPopDead_recreate(t) ==
    /\ pc[t] = "loop"
    /\ io_mutex = NoOwner
    /\ pool # <<>>
    /\ ~isValid(Head(pool))
    /\ ~reconnect(Head(pool))
    /\ created < MaxConn
    /\ created' = created + 1
    /\ pool' = Append(Tail(pool), created + 1)
    /\ pc' = [pc EXCEPT ![t] = "idle"]
    /\ res' = [res EXCEPT ![t] = "ConnectionUnavailable"]
    /\ lock_usec' = [lock_usec EXCEPT ![t] = 0]
    /\ UNCHANGED <<phase, pool_size, timeout_sec, borrowed, io_mutex, health,
                   now, held, stats>>

\* lines 157, 217-229: the front connection is invalid and does not reconnect
BorrowPopDead(t) ==
    /\ pc[t] = "loop"
    /\ io_mutex = NoOwner
    /\ pool # <<>>
    /\ ~isValid(Head(pool))
    /\ ~reconnect(Head(pool))
    /\ pool' = PoolAfterDiscard(pool)
    /\ pc' = [pc EXCEPT ![t] = "idle"]
    /\ res' = [res EXCEPT ![t] = "ConnectionUnavailable"]
    /\ lock_usec' = [lock_usec EXCEPT ![t] = 0]
    /\ UNCHANGED <<phase, pool_size, timeout_sec, borrowed, io_mutex, created,
                   health, now, held, stats>>

\* lines 157-174: the pool is empty, an abandoned entry is found and
\* factory->create() succeeds
BorrowReplace(t) ==
    /\ pc[t] = "loop"
    /\ io_mutex = NoOwner
    /\ pool = <<>>
    /\ created < MaxConn
    /\ \E it \in Abandoned :
        borrowed' = BorrowedAfterReplace(borrowed, it, created + 1)
    /\ created' = created + 1
    /\ held' = [held EXCEPT ![t] = created + 1]
    /\ pc' = [pc EXCEPT ![t] = "holding"]
    /\ res' = [res EXCEPT ![t] = "ok"]
    /\ lock_usec' = [lock_usec EXCEPT ![t] = 0]
    /\ UNCHANGED <<phase, pool_size, timeout_sec, pool, io_mutex, health, now,
                   stats>>

\* lines 171-172, 176-180: factory->create() is called before
\* borrowed.erase(it), so when it throws the erase is skipped and the entry
\* stays in borrowed
BorrowedAfterCreateFailure_erased(b, it) == b \ {it}
BorrowedAfterCreateFailure(b, it) == b

\* a failure that strikes only after the erase and the insert of lines
\* 172-173 have run
BorrowReplaceFail_halfdone(t) ==
    /\ pc[t] = "loop"
    /\ io_mutex = NoOwner
    /\ pool = <<>>
    /\ created < MaxConn
    /\ \E it \in Abandoned :
        borrowed' = BorrowedAfterReplace(borrowed, it, created + 1)
    /\ created' = created + 1
    /\ CreateFailure(t)
    /\ UNCHANGED <<phase, pool_size, timeout_sec, pool, health, now, held,
                   stats>>

\* lines 157-180: the pool is empty, an abandoned entry is found and
\* factory->create() throws; the catch block breaks out of the scan
BorrowReplaceFail(t) ==
    /\ pc[t] = "loop"
    /\ io_mutex = NoOwner
    /\ pool = <<>>
    /\ \E it \in Abandoned :
        borrowed' = BorrowedAfterCreateFailure(borrowed, it)
    /\ CreateFailure(t)
    /\ UNCHANGED <<phase, pool_size, timeout_sec, pool, created, health, now,
                   held, stats>>

\* lines 157-182: the pool is empty and no entry of borrowed is unique
BorrowScanNone(t) ==
    /\ pc[t] = "loop"
    /\ io_mutex = NoOwner
    /\ pool = <<>>
    /\ Abandoned = {}
    /\ io_mutex' = t
    /\ pc' = [pc EXCEPT ![t] = "timecheck"]
    /\ UNCHANGED <<phase, pool_size, timeout_sec, pool, borrowed, created,
                   health, now, held, lock_usec, res, stats>>

\* lines 185-199 and 215-217: before the deadline the lock is released to
\* wait; otherwise the scoped lock ends with the block
TimeCheck(t) ==
    /\ pc[t] = "timecheck"
    /\ io_mutex = t
    /\ io_mutex' = NoOwner
    /\ pc' = [pc EXCEPT ![t] =
                IF DeadlineNotPassed(t) THEN "unlocked" ELSE "whilecheck"]
    /\ UNCHANGED <<phase, pool_size, timeout_sec, pool, borrowed, created,
                   health, now, held, lock_usec, res, stats>>

\* lines 200-201: pthread_cond_timedwait starts waiting
EnterWait(t) ==
    /\ pc[t] = "unlocked"
    /\ pc' = [pc EXCEPT ![t] = "wait"]
    /\ UNCHANGED <<phase, pool_size, timeout_sec, pool, borrowed, io_mutex,
                   created, health, now, held, lock_usec, res, stats>>

\* line 201: pthread_cond_timedwait returns because ts has been reached
WakeTimeout(t) ==
    /\ pc[t] = "wait"
    /\ now >= lock_usec[t]
    /\ pc' = [pc EXCEPT ![t] = "woken"]
    /\ UNCHANGED <<phase, pool_size, timeout_sec, pool, borrowed, io_mutex,
                   created, health, now, held, lock_usec, res, stats>>

\* line 201: pthread_cond_timedwait returns spuriously
WakeSpurious(t) ==
    /\ pc[t] = "wait"
    /\ now < lock_usec[t]
    /\ pc' = [pc EXCEPT ![t] = "woken"]
    /\ UNCHANGED <<phase, pool_size, timeout_sec, pool, borrowed, io_mutex,
                   created, health, now, held, lock_usec, res, stats>>

\* the loop of borrow without its deadline: while(true)
WhileCheck_nodeadline(t) ==
    /\ pc[t] \in {"whilecheck", "woken"}
    /\ pc' = [pc EXCEPT ![t] = "loop"]
    /\ UNCHANGED <<phase, pool_size, timeout_sec, pool, borrowed, io_mutex,
                   created, health, now, held, lock_usec, res, stats>>

\* lines 238-242: the loop condition, and the throw after the loop; a thread
\* that waited comes here from line 202, one that did not from line 215
WhileCheck(t) ==
    /\ pc[t] \in {"whilecheck", "woken"}
    /\ IF DeadlineNotPassed(t)
         THEN /\ pc' = [pc EXCEPT ![t] = "loop"]
              /\ UNCHANGED <<res, lock_usec>>
         ELSE /\ pc' = [pc EXCEPT ![t] = "idle"]
              /\ res' = [res EXCEPT ![t] = "ConnectionUnavailable"]
              /\ lock_usec' = [lock_usec EXCEPT ![t] = 0]
    /\ UNCHANGED <<phase, pool_size, timeout_sec, pool, borrowed, io_mutex,
                   created, health, now, held, stats>>

\* ---- unborrow ----
\* this->pool.push_back(conn)
PoolAfterUnborrow_nopush(p, conn) == p
PoolAfterUnborrow(p, conn) == Append(p, conn)

\* this->borrowed.erase(conn)
BorrowedAfterUnborrow_noerase(b, conn) == b
BorrowedAfterUnborrow(b, conn) == b \ {conn}

\* the threads inside pthread_cond_timedwait
Waiters == {w \in Threads : pc[w] = "wait"}

\* lines 252-266; pthread_cond_signal wakes one waiter when there is one.
\* The caller passes the handle it borrowed and keeps no copy of it; it
\* calls right away or, in the tests, after its sleep has returned.
unborrow(t) ==
    /\ pc[t] \in {"holding", "slept"}
    /\ io_mutex = NoOwner
    /\ pool' = PoolAfterUnborrow(pool, held[t])
    /\ borrowed' = BorrowedAfterUnborrow(borrowed, held[t])
    /\ held' = [held EXCEPT ![t] = NoConn]
    /\ \E w \in (IF Waiters = {} THEN {NoOwner} ELSE Waiters) :
        pc' = [u \in Threads |->
                 IF u = t THEN "idle"
                 ELSE IF u = w THEN "woken" ELSE pc[u]]
    /\ UNCHANGED <<phase, pool_size, timeout_sec, io_mutex, created, health,
                   now, lock_usec, res, stats>>

\* ---- the callers and the environment ----
\* the caller lets its handle go out of scope without unborrow
Drop(t) ==
    /\ pc[t] = "holding"
    /\ held' = [held EXCEPT ![t] = NoConn]
    /\ pc' = [pc EXCEPT ![t] = "idle"]
    /\ UNCHANGED <<phase, pool_size, timeout_sec, pool, borrowed, io_mutex,
                   created, health, now, lock_usec, res, stats>>

\* time passes
Tick ==
    /\ phase = "ready"
    /\ now < MaxTime
    /\ now' = now + 1
    /\ UNCHANGED <<phase, pool_size, timeout_sec, pool, borrowed, io_mutex,
                   created, health, pc, held, lock_usec, res, stats>>

\* a free connection goes bad: "stale" can reconnect, "dead" cannot
Degrade(c, h) ==
    /\ phase = "ready"
    /\ c \in SeqToSet(pool)
    /\ health[c] = "ok"
    /\ health' = [health EXCEPT ![c] = h]
    /\ UNCHANGED <<phase, pool_size, timeout_sec, pool, borrowed, io_mutex,
                   created, now, pc, held, lock_usec, res, stats>>

Next ==
    \/ CtorFill
    \/ CtorThrow
    \/ CtorDone
    \/ get_stats
    \/ Tick
    \/ \E c \in Conns, h \in {"stale", "dead"} : Degrade(c, h)
    \/ \E t \in Threads :
        \/ BorrowStart(t)
        \/ BorrowPop(t)
        \/ BorrowPopDead(t)
        \/ BorrowReplace(t)
        \/ BorrowReplaceFail(t)
        \/ BorrowScanNone(t)
        \/ TimeCheck(t)
        \/ EnterWait(t)
        \/ WakeTimeout(t)
        \/ WakeSpurious(t)
        \/ WhileCheck(t)
        \/ unborrow(t)
        \/ Drop(t)

Spec == Init /\ [][Next]_vars

\* ---- callers that break the contract of unborrow ----
\* how many connections more than pool_size the pool is followed to
MaxExtra == 1

\* unborrow(conn) by a caller that keeps its copy of conn afterwards (the
\* variable stays in scope, as in getConnection)
UnborrowKeep(t) ==
    /\ pc[t] = "holding"
    /\ io_mutex = NoOwner
    /\ pool' = PoolAfterUnborrow(pool, held[t])
    /\ borrowed' = BorrowedAfterUnborrow(borrowed, held[t])
    /\ \E w \in (IF Waiters = {} THEN {NoOwner} ELSE Waiters) :
        pc' = [u \in Threads |->
                 IF u = t THEN "stale"
                 ELSE IF u = w THEN "woken" ELSE pc[u]]
    /\ UNCHANGED <<phase, pool_size, timeout_sec, io_mutex, created, health,
                   now, held, lock_usec, res, stats>>

\* a second unborrow(conn) for the same lease: lines 252-266 again, with a
\* handle that is no longer in borrowed unless it was borrowed anew
UnborrowAgain(t) ==
    /\ pc[t] = "stale"
    /\ io_mutex = NoOwner
    /\ Len(pool) + Cardinality(borrowed) < pool_size + MaxExtra
    /\ pool' = PoolAfterUnborrow(pool, held[t])
    /\ borrowed' = BorrowedAfterUnborrow(borrowed, held[t])
    /\ held' = [held EXCEPT ![t] = NoConn]
    /\ \E w \in (IF Waiters = {} THEN {NoOwner} ELSE Waiters) :
        pc' = [u \in Threads |->
                 IF u = t THEN "idle"
                 ELSE IF u = w THEN "woken" ELSE pc[u]]
    /\ UNCHANGED <<phase, pool_size, timeout_sec, io_mutex, created, health,
                   now, lock_usec, res, stats>>

\* Callers that may call unborrow twice, seen while the clock stands still,
\* the connections stay valid and no handle is dropped.
MisuseNext ==
    \/ CtorFill
    \/ CtorThrow
    \/ CtorDone
    \/ get_stats
    \/ \E t \in Threads :
        \/ BorrowStart(t)
        \/ BorrowPop(t)
        \/ BorrowScanNone(t)
        \/ TimeCheck(t)
        \/ EnterWait(t)
        \/ WakeSpurious(t)
        \/ WhileCheck(t)
        \/ unborrow(t)
        \/ UnborrowKeep(t)
        \/ UnborrowAgain(t)

MisuseSpec == Init /\ [][MisuseNext]_vars

\* ---- leases abandoned while a borrower waits ----
\* a caller lets its handle go out of scope while another thread is inside
\* pthread_cond_timedwait with its deadline still ahead
DropWhileWaited(t) ==
    /\ \E u \in Threads : pc[u] = "wait" /\ now < lock_usec[u]
    /\ Drop(t)

\* Callers that return their handles or drop them while somebody waits, with
\* a factory that does not fail after construction and connections that
\* stay valid.
AbandonNext ==
    \/ CtorFill
    \/ CtorThrow
    \/ CtorDone
    \/ Tick
    \/ \E t \in Threads :
        \/ BorrowStart(t)
        \/ BorrowPop(t)
        \/ BorrowReplace(t)
        \/ BorrowScanNone(t)
        \/ TimeCheck(t)
        \/ EnterWait(t)
        \/ WakeTimeout(t)
        \/ WakeSpurious(t)
        \/ WhileCheck(t)
        \/ unborrow(t)
        \/ DropWhileWaited(t)

AbandonSpec == Init /\ [][AbandonNext]_vars

\* ---- the test programs (src/test/test_3.cpp, src/test/test_4.cpp) ----
\* largest timeout_sec the test programs give to the constructor
TestMaxTimeout == 2

\* main: the pool is constructed with some size and timeout
TestInit ==
    /\ phase = "ctor"
    /\ pool_size \in 1..MaxPoolSize
    /\ timeout_sec \in 0..TestMaxTimeout
    /\ pool = <<>>
    /\ borrowed = {}
    /\ io_mutex = NoOwner
    /\ created = 0
    /\ health = [c \in Conns |-> "ok"]
    /\ now = 0
    /\ pc = [t \in Threads |-> "idle"]
    /\ held = [t \in Threads |-> NoConn]
    /\ lock_usec = [t \in Threads |-> 0]
    /\ res = [t \in Threads |-> "none"]
    /\ stats = [taken |-> FALSE, pool_size |-> 0, borrowed_size |-> 0,
                timeout_sec |-> 0]

\* getConnection: each thread calls pool->borrow() once
TestBorrow(t) ==
    /\ res[t] = "none"
    /\ BorrowStart(t)

\* getConnection: pool->unborrow(conn) after sleep(1) has returned
TestUnborrow(t) ==
    /\ pc[t] = "slept"
    /\ unborrow(t)

\* getConnection with sleep_time 0: pool->unborrow(conn) at once
TestUnborrowNow(t) ==
    /\ pc[t] = "holding"
    /\ unborrow(t)

\* One time unit passes.  The threads are created together and only sleep and
\* pthread_cond_timedwait take time: the clock advances when every thread has
\* made its call and is asleep, waiting before its deadline, or finished.
\* The sleeps that were running return.  Nothing depends on the clock once it
\* is past every deadline.
TestTick ==
    /\ phase = "ready"
    /\ now <= timeout_sec
    /\ \A t \in Threads :
        \/ pc[t] = "holding"
        \/ pc[t] = "wait" /\ now < lock_usec[t]
        \/ pc[t] = "idle" /\ res[t] # "none"
    /\ now' = now + 1
    /\ pc' = [t \in Threads |-> IF pc[t] = "holding" THEN "slept" ELSE pc[t]]
    /\ UNCHANGED <<phase, pool_size, timeout_sec, pool, borrowed, io_mutex,
                   created, health, held, lock_usec, res, stats>>

\* the steps of a borrow call that the tests can take: the dummy connections
\* are always valid and no handle is dropped
TestBorrowStep(t) ==
    \/ BorrowPop(t)
    \/ BorrowScanNone(t)
    \/ TimeCheck(t)
    \/ EnterWait(t)
    \/ WakeTimeout(t)
    \/ WhileCheck(t)

\* what a thread of test_3.cpp does by itself: all of getConnection but the
\* wake-ups that nothing forces
TestThreadStep(t) ==
    \/ TestBorrow(t)
    \/ TestBorrowStep(t)
    \/ TestUnborrow(t)

\* test_3.cpp: every thread sleeps one time unit between borrow and unborrow
Test3Next ==
    \/ CtorFill
    \/ CtorThrow
    \/ CtorDone
    \/ TestTick
    \/ \E t \in Threads :
        \/ TestThreadStep(t)
        \/ WakeSpurious(t)

\* test_4.cpp: a thread sleeps or, with sleep_time 0, unborrows at once
Test4Next ==
    \/ Test3Next
    \/ \E t \in Threads : TestUnborrowNow(t)

Test4Spec == TestInit /\ [][Test4Next]_vars

\* Time does not stop, and a thread that can run again and again gets to run
\* (the scheduler and the mutex starve nobody).  Spurious wake-ups may happen
\* but not for ever: without that, threads waking each other's turn away
\* would keep the clock from advancing.
Test3FairSpec ==
    /\ TestInit
    /\ [][Test3Next]_vars
    /\ SF_vars(TestTick)
    /\ \A t \in Threads : SF_vars(TestThreadStep(t))
    /\ <>[][\A t \in Threads : ~WakeSpurious(t)]_vars

\* the number of borrow calls that can be served before the deadline when
\* every lease lasts one time unit: pool_size at once, and pool_size more
\* for every further time unit before the deadline
Served == pool_size * (IF timeout_sec = 0 THEN 1 ELSE timeout_sec)

\* ---- types ----
TypeOK ==
    /\ phase \in {"ctor", "ready", "failed"}
    /\ pool_size \in 1..MaxPoolSize
    /\ timeout_sec \in 0..MaxTimeout
    /\ pool \in Seq(Conns)
    /\ borrowed \subseteq Conns
    /\ io_mutex \in Threads \cup {NoOwner}
    /\ created \in 0..MaxConn
    /\ health \in [Conns -> {"ok", "stale", "dead"}]
    /\ now \in 0..MaxTime
    /\ pc \in [Threads -> {"idle", "loop", "timecheck", "unlocked", "wait",
                           "woken", "whilecheck", "holding", "slept",
                           "stale"}]
    /\ held \in [Threads -> Conns \cup {NoConn}]
    /\ lock_usec \in [Threads -> 0..(MaxTime + MaxTimeout)]
    /\ res \in [Threads -> {"none", "ok", "ConnectionUnavailable"}]

\* ---- properties ----
\* total number of connections the pool keeps track of
Total == Len(pool) + Cardinality(borrowed)

\* C1: exclusive lease.  No connection is held by two callers at once, and a
\* connection a caller holds is in borrowed and not in the free deque, where
\* another borrow could take it.
C1_ExclusiveLease ==
    \A t1 \in Threads :
        held[t1] # NoConn =>
            /\ \A t2 \in Threads : t2 # t1 => held[t2] # held[t1]
            /\ held[t1] \in borrowed
            /\ held[t1] \notin SeqToSet(pool)

\* two callers hold two different connections at the same time
C1_Witness ==
    \E t1, t2 \in Threads :
        /\ t1 # t2
        /\ pc[t1] = "holding" /\ pc[t2] = "holding"
        /\ held[t1] # NoConn /\ held[t2] # NoConn

\* C2: free count + borrowed count, in the pool and in every snapshot
\* get_stats returned, never exceeds pool_size and is never negative; at most
\* pool_size connections are borrowed at once.
C2_WithinCapacity ==
    /\ Total <= pool_size
    /\ Cardinality(borrowed) <= pool_size
    /\ stats.pool_size >= 0 /\ stats.borrowed_size >= 0
    /\ stats.pool_size + stats.borrowed_size <= pool_size

\* get_stats reported the whole pool borrowed
C2_Witness ==
    /\ stats.taken
    /\ pool_size = MaxPoolSize
    /\ stats.borrowed_size = pool_size
    /\ \A t \in Threads : pc[t] = "holding"

\* C3: a borrow call that has woken from the wait does not throw
\* ConnectionUnavailable while a connection is free or recoverable: it
\* re-checks the pool and borrowed under the lock before failing.
C3_RecheckBeforeFailing ==
    [][\A t \in Threads :
         (pc[t] = "woken" /\ pc'[t] = "idle") =>
             (pool = <<>> /\ Abandoned = {})]_vars

\* C4: with timeout_sec = 0 no borrow call ever reaches the wait, and a call
\* that found the pool empty and nothing to replace goes from the time check
\* to the end of the loop and throws ConnectionUnavailable.
C4_ZeroTimeoutNeverBlocks ==
    [][timeout_sec = 0 =>
         \A t \in Threads :
            /\ pc'[t] \notin {"unlocked", "wait", "woken"}
            /\ (pc[t] = "timecheck" /\ pc'[t] # pc[t]) =>
                   pc'[t] = "whilecheck"
            /\ (pc[t] = "whilecheck" /\ pc'[t] # pc[t]) =>
                   (pc'[t] = "idle" /\ res'[t] = "ConnectionUnavailable")]_vars

\* a call with timeout_sec = 0 found nothing free and nothing abandoned and
\* has failed
C4_Witness ==
    /\ timeout_sec = 0
    /\ pool = <<>>
    /\ Abandoned = {}
    /\ \E t \in Threads :
        /\ pc[t] = "idle"
        /\ res[t] = "ConnectionUnavailable"
        /\ \A c \in 1..created : health[c] # "dead"

\* C5: abandonment recovery.  When a borrow call finds the pool empty and an
\* abandoned entry in borrowed and the factory makes a connection, the call
\* returns that new connection at once: the abandoned entry leaves borrowed,
\* the new connection enters it, and the size of borrowed is unchanged.
C5_AbandonmentRecovery ==
    [][\A t \in Threads :
         (/\ pc[t] = "loop" /\ pc'[t] # "loop"
          /\ pool = <<>> /\ Abandoned # {}
          /\ created' = created + 1) =>
             /\ pc'[t] = "holding"
             /\ res'[t] = "ok"
             /\ held'[t] = created'
             /\ held'[t] \notin borrowed
             /\ \E old \in Abandoned :
                    borrowed' = (borrowed \ {old}) \cup {held'[t]}
             /\ Cardinality(borrowed') = Cardinality(borrowed)
             /\ pool' = <<>>]_vars

\* a caller holds a connection made after construction while an abandoned
\* entry's place has been taken: borrowed is full, the free deque is empty
C5_Witness ==
    \E t \in Threads :
        /\ pc[t] = "holding"
        /\ held[t] > pool_size
        /\ held[t] \in borrowed
        /\ pool = <<>>
        /\ Cardinality(borrowed) = pool_size

\* C6: a borrow call that pops a connection that is invalid and does not
\* reconnect throws ConnectionUnavailable in that step, takes nothing else
\* from the pool, and the connection is then in neither pool nor borrowed.
C6_DeadConnectionDiscarded ==
    [][\A t \in Threads :
         (/\ pc[t] = "loop" /\ pc'[t] # "loop"
          /\ pool # <<>>
          /\ ~isValid(Head(pool)) /\ ~reconnect(Head(pool))) =>
             /\ pc'[t] = "idle"
             /\ res'[t] = "ConnectionUnavailable"
             /\ held'[t] = NoConn
             /\ pool' = Tail(pool)
             /\ Head(pool) \notin SeqToSet(pool')
             /\ Head(pool) \notin borrowed'
             /\ borrowed' = borrowed]_vars

\* a dead connection has been popped: a call failed and the connection is
\* gone from both collections
C6_Witness ==
    \E t \in Threads, c \in 1..created :
        /\ pc[t] = "idle"
        /\ res[t] = "ConnectionUnavailable"
        /\ health[c] = "dead"
        /\ c \notin SeqToSet(pool)
        /\ c \notin borrowed

\* C7: unborrow of a handle that is in borrowed appends it to the pool and
\* removes it from borrowed: free count + 1, borrowed count - 1.
C7_UnborrowReturns ==
    [][\A t \in Threads :
         (/\ pc[t] = "holding" /\ pc'[t] = "idle"
          /\ held[t] \in borrowed
          /\ (pool' # pool \/ borrowed' # borrowed)) =>
             /\ pool' = Append(pool, held[t])
             /\ held[t] \notin borrowed'
             /\ Len(pool') = Len(pool) + 1
             /\ Cardinality(borrowed') = Cardinality(borrowed) - 1]_vars

\* every connection has been borrowed and unborrowed again; the one at the
\* back of the pool was handed out and returned
C7_Witness ==
    /\ phase = "ready"
    /\ borrowed = {}
    /\ Len(pool) = pool_size
    /\ \E t \in Threads : pc[t] = "idle" /\ res[t] = "ok"

\* C8: while no borrow has been called since construction, the pool holds
\* pool_size free connections and none borrowed, and that is what get_stats
\* reports.
C8_FullAfterConstruction ==
    (phase = "ready" /\ \A t \in Threads : pc[t] = "idle" /\ res[t] = "none")
        => /\ Len(pool) = pool_size
           /\ borrowed = {}
           /\ stats.taken =>
                 (stats.pool_size = pool_size /\ stats.borrowed_size = 0)

\* get_stats was called on the largest pool before any borrow
C8_Witness ==
    /\ phase = "ready"
    /\ pool_size = MaxPoolSize
    /\ \A t \in Threads : pc[t] = "idle" /\ res[t] = "none"
    /\ stats.taken
    /\ stats.pool_size = MaxPoolSize

\* C9: a shortfall of pool + borrowed below pool_size is only transient:
\* whenever no borrow call is in progress the pool tracks pool_size
\* connections.
C9_NoPermanentShortfall ==
    (phase = "ready" /\ \A t \in Threads : pc[t] \in {"idle", "holding"})
        => Total = pool_size

\* C10: when factory->create() fails during abandonment replacement the
\* borrow call goes on to the time check with pool and borrowed untouched,
\* and no borrow call ever ends with anything but a handle or
\* ConnectionUnavailable.
C10_CreateFailureContained ==
    [][\A t \in Threads :
         /\ res'[t] \in {"none", "ok", "ConnectionUnavailable"}
         /\ (/\ pc[t] = "loop" /\ pc'[t] # "loop"
             /\ pool = <<>> /\ Abandoned # {}
             /\ created' = created) =>
                /\ pc'[t] = "timecheck"
                /\ res'[t] = "none"
                /\ pool' = pool
                /\ borrowed' = borrowed]_vars

\* a call is at the time check with two abandoned entries still in borrowed:
\* its replacement attempt failed (a scan that finds nothing gets here with
\* at most one entry abandoned since)
C10_Witness ==
    \E t \in Threads :
        /\ pc[t] = "timecheck"
        /\ pool = <<>>
        /\ Cardinality(Abandoned) = 2

\* C11: in the test programs, where every lease lasts at most one time unit,
\* when the threads are few enough to be served before the deadline no borrow
\* call ends with ConnectionUnavailable.
C11_AllBorrowsSucceed ==
    NumThreads <= Served =>
        \A t \in Threads : res[t] # "ConnectionUnavailable"

\* a thread is inside borrow()
InBorrow(t) ==
    pc[t] \in {"loop", "timecheck", "unlocked", "wait", "woken", "whilecheck"}

\* every thread of the test has made its call and given back what it got
TestDone == \A t \in Threads : pc[t] = "idle" /\ res[t] # "none"

RECURSIVE NoDuplicates(_)
NoDuplicates(s) ==
    IF s = <<>> THEN TRUE
    ELSE Head(s) \notin SeqToSet(Tail(s)) /\ NoDuplicates(Tail(s))

\* C13: an unborrow with a handle that is not in borrowed is rejected: the
\* free deque never holds a connection twice and pool + borrowed never
\* exceeds pool_size, also when a caller calls unborrow twice for a lease.
C13_BadUnborrowRejected ==
    /\ NoDuplicates(pool)
    /\ Total <= pool_size

\* C14: the factory makes a connection only in the constructor's fill loop,
\* pool_size of them by the time construction is over, and afterwards only
\* in a borrow call that found the pool empty and an abandoned entry in
\* borrowed and returns the new connection; no other step makes one.
C14_FactoryCalls ==
    [][/\ created' # created =>
            /\ created' = created + 1
            /\ \/ phase = "ctor" /\ Len(pool) < pool_size
               \/ /\ phase = "ready"
                  /\ pool = <<>>
                  /\ \E it \in borrowed : \A t \in Threads : held[t] # it
                  /\ \E t \in Threads :
                        /\ pc[t] = "loop" /\ pc'[t] = "holding"
                        /\ held'[t] = created'
       /\ (phase = "ctor" /\ phase' = "ready") => created = pool_size]_vars

\* the pool was built and a connection has been made since
C14_Witness ==
    /\ phase = "ready"
    /\ created > pool_size

\* C15: no missed wake-up.  When unborrow runs while a borrower has seen the
\* pool empty and has released io_mutex to wait, its signal wakes that
\* borrower or another one that is waiting.
C15_NoMissedWakeup ==
    [][\A t \in Threads :
         (/\ pc[t] = "holding" /\ pc'[t] = "idle"
          /\ pool' = Append(pool, held[t])
          /\ \E u \in Threads : pc[u] \in {"unlocked", "wait"}) =>
             \E w \in Threads :
                 pc[w] \in {"unlocked", "wait"} /\ pc'[w] = "woken"]_vars

\* C16: when leases are abandoned only while a borrower is waiting and the
\* factory does not fail, a borrower that has waited does not end with
\* ConnectionUnavailable while an abandoned lease is in borrowed: it scans
\* borrowed again and takes the replacement.
C16_WaiterRecoversAbandoned ==
    [][\A t \in Threads :
         (/\ pc[t] = "woken" /\ pc'[t] = "idle"
          /\ res'[t] = "ConnectionUnavailable") =>
             Abandoned = {}]_vars

\* the step of a borrow call in which factory->create() throws for an
\* abandoned entry
CreateFailed(t) ==
    /\ pc[t] = "loop" /\ pc'[t] = "timecheck"
    /\ Abandoned # {}

\* C17 as stated: the abandoned entry is erased before create() is called, so
\* after a failed create() borrowed has lost an abandoned entry and the pool
\* is below capacity; no further entry is tried.
C17_ErasedBeforeCreate ==
    [][\A t \in Threads :
         CreateFailed(t) =>
            /\ \E it \in Abandoned : borrowed' = borrowed \ {it}
            /\ Len(pool') + Cardinality(borrowed') < pool_size
            /\ created' = created]_vars

\* C17 amended: create() is called before the erase, so after a failed
\* create() borrowed still holds every abandoned entry and pool and borrowed
\* are as before; no further entry is tried (nothing is created) and the
\* call goes on to the time check.
C17_CreateBeforeErase ==
    [][\A t \in Threads :
         CreateFailed(t) =>
            /\ borrowed' = borrowed
            /\ Abandoned' = Abandoned
            /\ pool' = pool
            /\ created' = created
            /\ held'[t] = NoConn]_vars

\* a call is at the time check with the pool empty while two abandoned
\* entries are in borrowed: create() failed for the first and the second was
\* not tried
C17_Witness ==
    \E t \in Threads :
        /\ pc[t] = "timecheck"
        /\ pool = <<>>
        /\ Cardinality(Abandoned) = 2
        /\ Cardinality(borrowed) = pool_size

\* C18: the pool is a FIFO queue. Every step of a pool whose construction has
\* not failed leaves it alone, removes its front or appends one connection
\* at its back; a connection handed out of the pool is the one that was at
\* the front, and a returned connection goes to the back. Connections are therefore handed out in the order in which
\* they were returned, the ones of the constructor in creation order.
C18_Fifo ==
    [][/\ \/ phase' = "failed"
          \/ pool' = pool
          \/ pool # <<>> /\ pool' = Tail(pool)
          \/ \E c \in Conns : pool' = Append(pool, c)
       /\ \A t \in Threads :
            (held[t] = NoConn /\ held'[t] # NoConn /\ pool # <<>>) =>
                held'[t] = Head(pool) /\ pool' = Tail(pool)
       /\ \A t \in Threads :
            (pc[t] \in {"holding", "slept"} /\ pc'[t] = "idle"
             /\ held[t] \in borrowed /\ held[t] \notin borrowed') =>
                pool' = Append(pool, held[t])
       /\ (phase = "ctor" /\ created' # created) =>
                pool' = Append(pool, created')]_vars

\* a borrower is about to take from a pool whose order is the order of
\* return and not the order of creation
C18_Witness ==
    \E t \in Threads :
        /\ pc[t] = "loop"
        /\ Len(pool) = 2
        /\ pool[1] > pool[2]

\* C19: no false abandonment. A handle a thread holds is in borrowed from
\* the moment borrow hands it out, and an entry leaves borrowed only when no
\* thread holds it or when its own holder returns it with unborrow; another
\* thread's borrow never removes it.
C19_NoFalseAbandonment ==
    [][/\ \A t \in Threads : held'[t] # NoConn => held'[t] \in borrowed'
       /\ \A c \in borrowed \ borrowed' :
            \/ \A t \in Threads : held[t] # c
            \/ \E t \in Threads :
                /\ held[t] = c /\ held'[t] = NoConn
                /\ pc[t] \in {"holding", "slept"} /\ pc'[t] = "idle"
                /\ pool' = Append(pool, c)]_vars

\* an abandoned entry has been replaced (the caller holds a connection made
\* after construction) while another thread keeps holding its own lease
C19_Witness ==
    \E t, u \in Threads :
        /\ t # u
        /\ held[t] > pool_size
        /\ held[u] # NoConn
        /\ held[u] \in borrowed

\* a step taken by thread t's own borrow call on the way to the throw of
\* line 242: entry, scan without replacement, time check, entry to the wait,
\* loop condition. (The return of pthread_cond_timedwait is left out: it can
\* be the effect of another thread's unborrow.)
TimeoutPathStep(t) ==
    \/ pc[t] = "idle" /\ pc'[t] = "loop"
    \/ pc[t] = "loop" /\ pc'[t] = "timecheck"
    \/ pc[t] = "timecheck" /\ pc'[t] \in {"unlocked", "whilecheck"}
    \/ pc[t] = "unlocked" /\ pc'[t] = "wait"
    \/ pc[t] \in {"woken", "whilecheck"} /\ pc'[t] \in {"loop", "idle"}

\* C20: a borrow call that ends with ConnectionUnavailable at its deadline
\* changes neither pool nor borrowed: none of its steps, a scan in which
\* create() fails included, inserts into borrowed or removes from pool or
\* borrowed, and the caller ends without a handle.
C20_TimeoutLeavesPool ==
    [][\A t \in Threads :
         TimeoutPathStep(t) =>
            /\ pool' = pool
            /\ borrowed' = borrowed
            /\ held'[t] = NoConn]_vars

\* a call has ended with ConnectionUnavailable at a deadline in the future of
\* its start, the pool empty and an abandoned entry still in borrowed, pool
\* and borrowed together at capacity
C20_Witness ==
    \E t \in Threads :
        /\ pc[t] = "idle"
        /\ res[t] = "ConnectionUnavailable"
        /\ timeout_sec > 0
        /\ pool = <<>>
        /\ Abandoned # {}
        /\ Len(pool) + Cardinality(borrowed) = pool_size

====
